---- MODULE Spec2Model ----
(***************************************************************************)
(* A model of the AI Agent Platform backend: src/backend/main.py (the      *)
(* FastAPI entrypoint: /health, the WebSocket chat handler, the protected  *)
(* HTTP routes and their request models) and src/backend/core/config.py    *)
(* (the cached settings singleton).                                        *)
(*                                                                         *)
(* Each handler is a small sequential process; every await on an external  *)
(* collaborator (a service, the socket, verify_token) is one step whose    *)
(* outcome - a returned value or a raised exception - is chosen            *)
(* nondeterministically.  The handlers do not share state, so each has its *)
(* own specification: SpecHealth, SpecWs, SpecHttp, SpecSettings.          *)
(***************************************************************************)
EXTENDS Naturals, Sequences, FiniteSets

(* Python's None. *)
None == "<None>"

(* The exception classes an external call may raise (all subclasses of     *)
(* Exception): the handlers only log them, so two are enough to tell them  *)
(* apart in the log.                                                       *)
Exceptions == {"ConnectionError", "TimeoutError"}

VARIABLES
    \* ---- GET /health (main.py:129-160)
    h_pc,            \* position in health_check
    db_healthy,      \* local db_healthy     (None until assigned)
    vector_healthy,  \* local vector_healthy (None until assigned)
    llm_healthy,     \* local llm_healthy    (None until assigned)
    h_probes,        \* the probes awaited so far, with what each did
    h_log,           \* logger.error records of this request
    h_response       \* the HealthResponse returned, or the exception raised

healthVars == <<h_pc, db_healthy, vector_healthy, llm_healthy, h_probes, h_log, h_response>>

VARIABLES
    \* ---- WebSocket /ws/chat/{agent_id} (main.py:176-221)
    ws_pc,               \* position in websocket_chat
    token,               \* the token query parameter (None when not given)
    agent_id,            \* the agent_id path parameter
    user_id,             \* local user_id
    data,                \* local data: the JSON value last received
    response,            \* local response: what process_message last returned
    ws_pending,          \* the exception that leaves the handler after finally
    ws_calls,            \* every call made on a collaborator, in order
    ws_log,              \* logger records of this connection
    active_connections   \* ConnectionManager: the sockets registered

wsVars == <<ws_pc, token, agent_id, user_id, data, response, ws_pending, ws_calls,
            ws_log, active_connections>>

VARIABLES
    \* ---- the protected HTTP routes (main.py:163-173, 256-311)
    http_pc,         \* position in the handling of the current request
    route,           \* the route requested
    supplied,        \* the fields the JSON body of the request carries
    current_user,    \* what Depends(get_current_user) produced
    request,         \* the validated request model handed to the handler
    http_calls,      \* the calls made for this request: verify_token, agent_service
    http_log,        \* logger.error records of this request
    http_response    \* the response sent to the client

httpVars == <<http_pc, route, supplied, current_user, request, http_calls, http_log,
              http_response>>

VARIABLES
    \* ---- core/config.py
    environ,         \* os.environ, restricted to the variables Settings reads
    cfg_pc,          \* whether the module body of core/config.py has run
    cache,           \* the lru_cache of get_settings: argument tuple -> result
    constructed,     \* every Settings() construction attempted, in order
    returned,        \* what each get_settings() call returned, in order
    settings,        \* module global settings
    exports          \* module globals DATABASE_URL, REDIS_URL, SECRET_KEY, ...

cfgVars == <<environ, cfg_pc, cache, constructed, returned, settings, exports>>

VARIABLES
    \* ---- the application lifespan (main.py:56-76)
    l_pc,            \* position in lifespan
    l_calls,         \* the startup and shutdown steps awaited, with what each did
    l_log            \* logger.info records of lifespan

lifespanVars == <<l_pc, l_calls, l_log>>

vars == <<healthVars, wsVars, httpVars, cfgVars, lifespanVars>>

(* Every handler's state before it is entered; a specification of one      *)
(* handler leaves the others there.                                        *)
IdleHealth ==
    /\ h_pc = "idle"
    /\ db_healthy = None
    /\ vector_healthy = None
    /\ llm_healthy = None
    /\ h_probes = <<>>
    /\ h_log = <<>>
    /\ h_response = None

IdleWs ==
    /\ ws_pc = "idle"
    /\ token = None
    /\ agent_id = None
    /\ user_id = None
    /\ data = [kind |-> None, message |-> "<absent>", conversation_id |-> "<absent>"]
    /\ response = None
    /\ ws_pending = None
    /\ ws_calls = <<>>
    /\ ws_log = <<>>
    /\ active_connections = {}

IdleHttp ==
    /\ http_pc = "idle"
    /\ route = None
    /\ supplied = {}
    /\ current_user = None
    /\ request = None
    /\ http_calls = <<>>
    /\ http_log = <<>>
    /\ http_response = None

IdleLifespan ==
    /\ l_pc = "idle"
    /\ l_calls = <<>>
    /\ l_log = <<>>

IdleCfg ==
    /\ environ = None
    /\ cfg_pc = "idle"
    /\ cache = None
    /\ constructed = <<>>
    /\ returned = <<>>
    /\ settings = None
    /\ exports = None

-----------------------------------------------------------------------------
(* GET /health                                                            *)

(* What awaiting a probe can do: return True, return False, or raise.      *)
ProbeOutcomes == {[kind |-> "return", value |-> "True", exc |-> None],
                  [kind |-> "return", value |-> "False", exc |-> None]}
                 \cup {[kind |-> "raise", value |-> None, exc |-> e] : e \in Exceptions}

(* datetime.utcnow().isoformat() *)
Clock == {"2024-01-01T00:00:00", "2024-01-01T00:00:01"}

(* try: x = await probe()  except Exception as e: logger.error(..); x = False *)
(* The value the local gets, and the log line written, for an outcome.      *)
ProbeValue(o) == IF o.kind = "return" THEN o.value ELSE "False"

ProbeLog(what, o) == IF o.kind = "raise" THEN <<[msg |-> what, exc |-> o.exc]>> ELSE <<>>

InitHealth ==
    /\ h_pc = "db"
    /\ db_healthy = None
    /\ vector_healthy = None
    /\ llm_healthy = None
    /\ h_probes = <<>>
    /\ h_log = <<>>
    /\ h_response = None
    /\ IdleWs /\ IdleHttp /\ IdleCfg /\ IdleLifespan

notHealth == <<wsVars, httpVars, cfgVars, lifespanVars>>

(* main.py:135-139 *)
CheckDatabase ==
    /\ h_pc = "db"
    /\ \E o \in ProbeOutcomes :
        /\ h_probes' = Append(h_probes, [probe |-> "agent_service", outcome |-> o])
        /\ db_healthy' = ProbeValue(o)
        /\ h_log' = h_log \o ProbeLog("Database health check failed", o)
    /\ h_pc' = "vector"
    /\ UNCHANGED <<vector_healthy, llm_healthy, h_response, notHealth>>

(* The same step without its try/except: the exception leaves the handler. *)
CheckVectorUncaught ==
    /\ h_pc = "vector"
    /\ \E o \in ProbeOutcomes :
        /\ h_probes' = Append(h_probes, [probe |-> "vector_service", outcome |-> o])
        /\ IF o.kind = "raise"
           THEN /\ h_pc' = "raised"
                /\ h_response' = [raised |-> o.exc]
                /\ UNCHANGED vector_healthy
           ELSE /\ h_pc' = "llm"
                /\ vector_healthy' = o.value
                /\ UNCHANGED h_response
    /\ UNCHANGED <<db_healthy, llm_healthy, h_log, notHealth>>

(* main.py:142-146 *)
CheckVector ==
    /\ h_pc = "vector"
    /\ \E o \in ProbeOutcomes :
        /\ h_probes' = Append(h_probes, [probe |-> "vector_service", outcome |-> o])
        /\ vector_healthy' = ProbeValue(o)
        /\ h_log' = h_log \o ProbeLog("Vector database health check failed", o)
    /\ h_pc' = "llm"
    /\ UNCHANGED <<db_healthy, llm_healthy, h_response, notHealth>>

(* main.py:149-153 *)
CheckLLM ==
    /\ h_pc = "llm"
    /\ \E o \in ProbeOutcomes :
        /\ h_probes' = Append(h_probes, [probe |-> "llm_service", outcome |-> o])
        /\ llm_healthy' = ProbeValue(o)
        /\ h_log' = h_log \o ProbeLog("LLM service health check failed", o)
    /\ h_pc' = "respond"
    /\ UNCHANGED <<db_healthy, vector_healthy, h_response, notHealth>>

(* main.py:100-106, 155-160 *)
HealthRespond ==
    /\ h_pc = "respond"
    /\ \E now \in Clock :
        h_response' = [status |-> "healthy", version |-> "1.0.0", timestamp |-> now,
                       database |-> db_healthy, vector_db |-> vector_healthy,
                       llm_service |-> llm_healthy]
    /\ h_pc' = "done"
    /\ UNCHANGED <<db_healthy, vector_healthy, llm_healthy, h_probes, h_log, notHealth>>

NextHealth == CheckDatabase \/ CheckVector \/ CheckLLM \/ HealthRespond

SpecHealth == InitHealth /\ [][NextHealth]_vars

(* The probes health_check awaits, in the order of the code. *)
HealthProbeOrder == <<"agent_service", "vector_service", "llm_service">>

(* What the response must show for a probe: its value, False when it raised. *)
Reflected(o) == IF o.kind = "raise" THEN "False" ELSE o.value

(* How many probes have been awaited when the handler is at a position. *)
ProbesAwaitedAt(pc) ==
    CASE pc = "db" -> 0
      [] pc = "vector" -> 1
      [] pc = "llm" -> 2
      [] OTHER -> 3

(* C1: whatever each of the three probes does (returns true, returns false  *)
(* or raises), health_check never propagates an exception, awaits all three *)
(* probes in order (a failure never skips a later probe), and the response's *)
(* database, vector_db and llm_service fields are what the probe of each    *)
(* returned, or false when that probe raised.                               *)
C1_HealthReflectsProbes ==
    /\ h_pc \in {"db", "vector", "llm", "respond", "done"}
    /\ Len(h_probes) = ProbesAwaitedAt(h_pc)
    /\ \A i \in 1..Len(h_probes) : h_probes[i].probe = HealthProbeOrder[i]
    /\ h_pc = "done" =>
        /\ h_response.database = Reflected(h_probes[1].outcome)
        /\ h_response.vector_db = Reflected(h_probes[2].outcome)
        /\ h_response.llm_service = Reflected(h_probes[3].outcome)

(* A request where the first two probes raised and the third returned true. *)
C1_Witness ==
    /\ h_pc = "done"
    /\ h_probes[1].outcome.kind = "raise"
    /\ h_probes[2].outcome.kind = "raise"
    /\ h_probes[3].outcome.value = "True"
    /\ h_response.database = "False"
    /\ h_response.vector_db = "False"
    /\ h_response.llm_service = "True"

-----------------------------------------------------------------------------
(* WebSocket /ws/chat/{agent_id}                                           *)

(* The most JSON messages a client sends on one connection. *)
MaxMessages == 2

(* The close codes of the handler. *)
CloseAuthCode == 4001
CloseErrorCode == 4000

(* A key a JSON object does not carry. *)
Absent == "<absent>"

(* dict.get(key, default) *)
DictGet(d, key, default) == IF d[key] = Absent THEN default ELSE d[key]

(* Python truthiness of an Optional[str]: None and "" are falsy. *)
Truthy(v) == v # None /\ v # ""

(* The token query parameter: not given, given empty, given. *)
Tokens == {None, "", "token-a"}

AgentIds == {"agent-1", "agent-2"}

(* The socket of the connection the handler serves. *)
WebSocketId == "ws-1"

(* verify_token (core/security.py): raises, or returns the payload of the  *)
(* token, a dict that may or may not carry "sub".                           *)
Payloads == {[sub |-> u] : u \in {Absent, "", "user-1", "user-2"}}

VerifyOutcomes == {[kind |-> "return", payload |-> p, exc |-> None] : p \in Payloads}
                  \cup {[kind |-> "raise", payload |-> [sub |-> Absent], exc |-> e] : e \in Exceptions}

(* websocket.receive_json returns any JSON value: the objects               *)
(* {message, conversation_id} of the protocol, with either key missing, or  *)
(* a value that is no object (an array).                                    *)
JsonObjects == {[kind |-> "object", message |-> m, conversation_id |-> c] :
                    m \in {Absent, "hello"}, c \in {Absent, "conv-1"}}

JsonArray == [kind |-> "array", message |-> Absent, conversation_id |-> Absent]

JsonValues == JsonObjects \cup {JsonArray}

NoData == [kind |-> None, message |-> Absent, conversation_id |-> Absent]

(* What websocket_service.process_message returns. *)
Responses == {"reply-1", "reply-2"}

(* How an awaited socket or service call ends: "ok", the client gone       *)
(* (WebSocketDisconnect), or another exception.                             *)
Disconnect == "WebSocketDisconnect"

CallFailures == {Disconnect} \cup Exceptions

NoArgs == [agent_id |-> None, user_id |-> None, message |-> None, conversation_id |-> None]

(* One record of ws_calls. *)
Call(op, outcome, code, args, json, value) ==
    [op |-> op, outcome |-> outcome, code |-> code, args |-> args, data |-> json,
     value |-> value]

(* The JSON messages received so far on the connection. *)
Received == {i \in 1..Len(ws_calls) :
                ws_calls[i].op = "receive_json" /\ ws_calls[i].outcome = "ok"}

(* ConnectionManager (core/websocket.py): the registry of live sockets. *)
ConnectionManagerConnect(conns, ws) == conns \cup {ws}

ConnectionManagerDisconnect(conns, ws) == conns \ {ws}

notWs == <<healthVars, httpVars, cfgVars, lifespanVars>>

InitWs ==
    /\ ws_pc = "auth"
    /\ token \in Tokens
    /\ agent_id \in AgentIds
    /\ user_id = None
    /\ data = NoData
    /\ response = None
    /\ ws_pending = None
    /\ ws_calls = <<>>
    /\ ws_log = <<>>
    /\ active_connections = {}
    /\ IdleHealth /\ IdleHttp /\ IdleCfg /\ IdleLifespan

(* main.py:185-191: user_id = None; if token: try verify_token ... except *)
Authenticate ==
    /\ ws_pc = "auth"
    /\ IF Truthy(token)
       THEN \E o \in VerifyOutcomes :
            /\ ws_calls' = Append(ws_calls,
                   Call("verify_token", IF o.kind = "raise" THEN o.exc ELSE "ok",
                        0, NoArgs, NoData, token))
            /\ IF o.kind = "raise"
               THEN /\ user_id' = None
                    /\ ws_log' = Append(ws_log, [msg |-> "WebSocket authentication failed",
                                                 exc |-> o.exc])
                    /\ ws_pc' = "close_auth"
               ELSE /\ user_id' = DictGet(o.payload, "sub", None)
                    /\ UNCHANGED ws_log
                    /\ ws_pc' = "connect"
       ELSE /\ user_id' = None
            /\ ws_pc' = "connect"
            /\ UNCHANGED <<ws_calls, ws_log>>
    /\ UNCHANGED <<token, agent_id, data, response, ws_pending, active_connections, notWs>>

(* The same step without its return: the handler goes on to connect. *)
CloseAuthFailedNoReturn ==
    /\ ws_pc = "close_auth"
    /\ \E o \in {"ok"} \cup Exceptions :
        /\ ws_calls' = Append(ws_calls, Call("close", o, CloseAuthCode, NoArgs, NoData, None))
        /\ ws_pending' = IF o = "ok" THEN None ELSE o
        /\ ws_pc' = IF o = "ok" THEN "connect" ELSE "raised"
    /\ UNCHANGED <<token, agent_id, user_id, data, response, ws_log, active_connections, notWs>>

(* main.py:192-193: await websocket.close(code=4001, ...); return *)
CloseAuthFailed ==
    /\ ws_pc = "close_auth"
    /\ \E o \in {"ok"} \cup Exceptions :
        /\ ws_calls' = Append(ws_calls, Call("close", o, CloseAuthCode, NoArgs, NoData, None))
        /\ ws_pending' = IF o = "ok" THEN None ELSE o
        /\ ws_pc' = IF o = "ok" THEN "returned" ELSE "raised"
    /\ UNCHANGED <<token, agent_id, user_id, data, response, ws_log, active_connections, notWs>>

(* main.py:196: await connection_manager.connect(websocket, user_id), *)
(* outside the try: an exception of it leaves the handler.             *)
Connect ==
    /\ ws_pc = "connect"
    /\ \E o \in {"ok"} \cup Exceptions :
        /\ ws_calls' = Append(ws_calls,
               Call("connect", o, 0, [NoArgs EXCEPT !.user_id = user_id], NoData, WebSocketId))
        /\ IF o = "ok"
           THEN /\ active_connections' = ConnectionManagerConnect(active_connections, WebSocketId)
                /\ ws_pc' = "receive"
                /\ UNCHANGED ws_pending
           ELSE /\ ws_pc' = "raised"
                /\ ws_pending' = o
                /\ UNCHANGED active_connections
    /\ UNCHANGED <<token, agent_id, user_id, data, response, ws_log, notWs>>

(* The same without the except Exception clause: every failure goes to *)
(* finally and, but for a disconnect, leaves the handler from there.   *)
LoopExitNoClose(failure) ==
    /\ ws_pending' = IF failure = Disconnect THEN None ELSE failure
    /\ ws_pc' = "finally"
    /\ UNCHANGED ws_log

(* How a call inside the try block (main.py:198-213) that did not return     *)
(* leaves the loop: WebSocketDisconnect is logged (main.py:215-216) and goes *)
(* to finally; any other exception goes to the except Exception clause.      *)
LoopExit(failure) ==
    IF failure = Disconnect
    THEN /\ ws_log' = Append(ws_log, [msg |-> "WebSocket disconnected for user",
                                      exc |-> user_id])
         /\ ws_pending' = None
         /\ ws_pc' = "finally"
    ELSE /\ ws_pending' = failure
         /\ ws_pc' = "close_error"
         /\ UNCHANGED ws_log

(* main.py:199-201: data = await websocket.receive_json() *)
Receive ==
    /\ ws_pc = "receive"
    /\ \/ /\ Cardinality(Received) < MaxMessages
          /\ \E d \in JsonValues :
              /\ ws_calls' = Append(ws_calls, Call("receive_json", "ok", 0, NoArgs, d, None))
              /\ data' = d
          /\ ws_pc' = "process"
          /\ UNCHANGED <<ws_pending, ws_log>>
       \/ \E f \in CallFailures :
          /\ ws_calls' = Append(ws_calls, Call("receive_json", f, 0, NoArgs, NoData, None))
          /\ LoopExit(f)
          /\ UNCHANGED data
    /\ UNCHANGED <<token, agent_id, user_id, response, active_connections, notWs>>

(* The same with data.get("message") in place of data.get("message", ""). *)
ProcessArgsNoDefault ==
    [agent_id |-> agent_id,
     user_id |-> user_id,
     message |-> DictGet(data, "message", None),
     conversation_id |-> DictGet(data, "conversation_id", None)]

(* The keyword arguments of main.py:205-208. *)
ProcessArgs ==
    [agent_id |-> agent_id,
     user_id |-> user_id,
     message |-> DictGet(data, "message", ""),
     conversation_id |-> DictGet(data, "conversation_id", None)]

(* main.py:204-210: response = await websocket_service.process_message(...). *)
(* data.get is evaluated first: a JSON value that is no object has no get    *)
(* and raises AttributeError before the service is called.                   *)
Process ==
    /\ ws_pc = "process"
    /\ IF data.kind # "object"
       THEN /\ LoopExit("AttributeError")
            /\ UNCHANGED <<ws_calls, response>>
       ELSE \/ \E r \in Responses :
               /\ ws_calls' = Append(ws_calls,
                      Call("process_message", "ok", 0, ProcessArgs, NoData, r))
               /\ response' = r
               /\ ws_pc' = "send"
               /\ UNCHANGED <<ws_pending, ws_log>>
            \/ \E f \in CallFailures :
               /\ ws_calls' = Append(ws_calls,
                      Call("process_message", f, 0, ProcessArgs, NoData, None))
               /\ LoopExit(f)
               /\ UNCHANGED response
    /\ UNCHANGED <<token, agent_id, user_id, data, active_connections, notWs>>

(* main.py:213: await websocket.send_json(response), then the next turn of *)
(* while True.                                                             *)
Send ==
    /\ ws_pc = "send"
    /\ \/ /\ ws_calls' = Append(ws_calls, Call("send_json", "ok", 0, NoArgs, NoData, response))
          /\ ws_pc' = "receive"
          /\ UNCHANGED <<ws_pending, ws_log>>
       \/ \E f \in CallFailures :
          /\ ws_calls' = Append(ws_calls, Call("send_json", f, 0, NoArgs, NoData, response))
          /\ LoopExit(f)
    /\ UNCHANGED <<token, agent_id, user_id, data, response, active_connections, notWs>>

(* The same with disconnect after the try statement in place of a finally *)
(* clause: an exception of close leaves the handler at once.              *)
CloseErrorNoFinally ==
    /\ ws_pc = "close_error"
    /\ ws_log' = Append(ws_log, [msg |-> "WebSocket error", exc |-> ws_pending])
    /\ \E o \in {"ok"} \cup Exceptions :
        /\ ws_calls' = Append(ws_calls, Call("close", o, CloseErrorCode, NoArgs, NoData, None))
        /\ ws_pending' = IF o = "ok" THEN None ELSE o
        /\ ws_pc' = IF o = "ok" THEN "finally" ELSE "raised"
    /\ UNCHANGED <<token, agent_id, user_id, data, response, active_connections, notWs>>

(* main.py:217-219: except Exception as e: logger.error(..);               *)
(* await websocket.close(code=4000, ...).  An exception of close replaces  *)
(* e and leaves the handler once finally has run.                          *)
CloseError ==
    /\ ws_pc = "close_error"
    /\ ws_log' = Append(ws_log, [msg |-> "WebSocket error", exc |-> ws_pending])
    /\ \E o \in {"ok"} \cup Exceptions :
        /\ ws_calls' = Append(ws_calls, Call("close", o, CloseErrorCode, NoArgs, NoData, None))
        /\ ws_pending' = IF o = "ok" THEN None ELSE o
    /\ ws_pc' = "finally"
    /\ UNCHANGED <<token, agent_id, user_id, data, response, active_connections, notWs>>

(* main.py:220-221: finally: await connection_manager.disconnect(websocket), *)
(* then the handler returns, or re-raises what is pending.                   *)
Finally ==
    /\ ws_pc = "finally"
    /\ ws_calls' = Append(ws_calls, Call("disconnect", "ok", 0, NoArgs, NoData, WebSocketId))
    /\ active_connections' = ConnectionManagerDisconnect(active_connections, WebSocketId)
    /\ ws_pc' = IF ws_pending = None THEN "returned" ELSE "raised"
    /\ UNCHANGED <<token, agent_id, user_id, data, response, ws_pending, ws_log, notWs>>

NextWs ==
    \/ Authenticate
    \/ CloseAuthFailed
    \/ Connect
    \/ Receive
    \/ Process
    \/ Send
    \/ CloseError
    \/ Finally

SpecWs == InitWs /\ [][NextWs]_vars

(* The positions of the calls of one operation in ws_calls. *)
CallsOf(op) == {i \in 1..Len(ws_calls) : ws_calls[i].op = op}

(* connection_manager.connect returned: the connection is registered. *)
Registered == \E i \in CallsOf("connect") : ws_calls[i].outcome = "ok"

(* C2: connection_manager.connect is called, and a message is forwarded to  *)
(* websocket_service.process_message, only on a connection for which a      *)
(* token was supplied and verify_token succeeded on it; a connection opened *)
(* with no token is never registered and never has a message processed.     *)
C2_ServedOnlyIfTokenVerified ==
    (CallsOf("connect") \cup CallsOf("process_message")) # {} =>
        /\ token # None
        /\ \E i \in CallsOf("verify_token") :
            ws_calls[i].value = token /\ ws_calls[i].outcome = "ok"

(* C3: when a token is supplied and verify_token raises on it, the handler  *)
(* closes the socket with code 4001 and returns (it ends otherwise only if  *)
(* that close itself raised), and connect, receive_json, process_message,   *)
(* send_json and disconnect are never called on that connection.            *)
C3_VerifyFailureCloses4001 ==
    \A i \in CallsOf("verify_token") : ws_calls[i].outcome # "ok" =>
        /\ Truthy(token)
        /\ i = 1
        /\ \A j \in 1..Len(ws_calls) :
            ws_calls[j].op \notin {"connect", "receive_json", "process_message",
                                   "send_json", "disconnect"}
        /\ active_connections = {}
        /\ IF Len(ws_calls) = 1
           THEN ws_pc = "close_auth"
           ELSE /\ Len(ws_calls) = 2
                /\ ws_calls[2].op = "close"
                /\ ws_calls[2].code = CloseAuthCode
                /\ ws_pc = (IF ws_calls[2].outcome = "ok" THEN "returned" ELSE "raised")

(* A connection whose token failed verification, closed with 4001, returned. *)
C3_Witness ==
    /\ ws_pc = "returned"
    /\ Len(ws_calls) = 2
    /\ ws_calls[1].op = "verify_token"
    /\ ws_calls[1].outcome \in Exceptions
    /\ ws_calls[2].op = "close"
    /\ ws_calls[2].code = 4001
    /\ ws_calls[2].outcome = "ok"

MessageOps == {"receive_json", "process_message", "send_json"}

(* C6: once the connection is registered, an exception other than a client  *)
(* disconnect raised by receive_json, process_message or send_json ends the *)
(* loop: the very next call is close with code 4000, nothing is received or *)
(* processed afterwards, and the only call after that close is              *)
(* connection_manager.disconnect.                                           *)
C6_LoopErrorCloses4000 ==
    \A i \in 1..Len(ws_calls) :
        (ws_calls[i].op \in MessageOps /\ ws_calls[i].outcome \in Exceptions) =>
            /\ Registered
            /\ Len(ws_calls) <= i + 2
            /\ Len(ws_calls) = i => ws_pc = "close_error"
            /\ Len(ws_calls) > i =>
                /\ ws_calls[i + 1].op = "close"
                /\ ws_calls[i + 1].code = CloseErrorCode
            /\ Len(ws_calls) = i + 1 => ws_pc = "finally"
            /\ Len(ws_calls) = i + 2 =>
                /\ ws_calls[i + 2].op = "disconnect"
                /\ ws_pc \in {"returned", "raised"}

(* process_message raised on the second message; closed 4000, deregistered. *)
C6_Witness ==
    /\ ws_pc = "returned"
    /\ Cardinality(Received) = 2
    /\ \E i \in CallsOf("process_message") :
        /\ ws_calls[i].outcome \in Exceptions
        /\ Len(ws_calls) = i + 2
        /\ ws_calls[i + 1].op = "close"
        /\ ws_calls[i + 1].code = 4000
        /\ ws_calls[i + 2].op = "disconnect"

(* The responses sent to the client. *)
Sent == {i \in CallsOf("send_json") : ws_calls[i].outcome = "ok"}

(* The user_id the connection was registered with. *)
UserAtConnect == ws_calls[CHOOSE i \in CallsOf("connect") : TRUE].args.user_id

(* What C9 states process_message is called with for a message. *)
ExpectedArgs(d) ==
    [agent_id |-> agent_id,
     user_id |-> UserAtConnect,
     message |-> IF d.message = Absent THEN "" ELSE d.message,
     conversation_id |-> IF d.conversation_id = Absent THEN None ELSE d.conversation_id]

(* Receive, process, send for the message received by call i: the next call *)
(* is process_message with the arguments C9 states, and when it returned *)
(* the call after it is send_json of exactly the value returned.            *)
Forwarded(i) ==
    /\ Len(ws_calls) = i => ws_pc = "process"
    /\ Len(ws_calls) > i =>
        /\ ws_calls[i + 1].op = "process_message"
        /\ ws_calls[i + 1].args = ExpectedArgs(ws_calls[i].data)
        /\ ws_calls[i + 1].outcome = "ok" =>
            /\ Len(ws_calls) = i + 1 => ws_pc = "send"
            /\ Len(ws_calls) > i + 1 =>
                /\ ws_calls[i + 2].op = "send_json"
                /\ ws_calls[i + 2].value = ws_calls[i + 1].value

(* A message is received only right after connect or after the response to *)
(* the previous message was sent; responses number the messages or one less. *)
Alternates ==
    /\ \A j \in CallsOf("receive_json") :
        /\ j > 1
        /\ \/ ws_calls[j - 1].op = "connect" /\ ws_calls[j - 1].outcome = "ok"
           \/ ws_calls[j - 1].op = "send_json" /\ ws_calls[j - 1].outcome = "ok"
    /\ \A j \in CallsOf("process_message") : j - 1 \in Received
    /\ \A j \in CallsOf("send_json") :
        /\ j - 1 \in CallsOf("process_message")
        /\ ws_calls[j - 1].outcome = "ok"
    /\ Cardinality(Sent) \in {Cardinality(Received), Cardinality(Received) - 1}

(* C9 as stated: every JSON message received is passed to process_message   *)
(* exactly once, with agent_id, the user_id of the connection, its message  *)
(* ("" when absent) and conversation_id (None when absent), and the value   *)
(* returned is sent unmodified before the next message is received.         *)
C9_EveryMessageForwarded ==
    /\ Alternates
    /\ \A i \in Received : Forwarded(i)

(* C9 amended: the same for every received message that is a JSON object; a *)
(* received JSON value that is not an object is never passed to             *)
(* process_message: the loop ends there and the next call is close(4000).   *)
C9_EveryObjectForwarded ==
    /\ Alternates
    /\ \A i \in Received :
        IF ws_calls[i].data.kind = "object"
        THEN Forwarded(i)
        ELSE /\ Len(ws_calls) = i => ws_pc \in {"process", "close_error"}
             /\ Len(ws_calls) > i =>
                 /\ ws_calls[i + 1].op = "close"
                 /\ ws_calls[i + 1].code = CloseErrorCode

(* Two objects answered in turn, the second without its keys. *)
C9_Witness ==
    /\ Cardinality(Sent) = 2
    /\ Len(ws_calls) >= 8
    /\ ws_calls[3].op = "receive_json"
    /\ ws_calls[3].data.message = "hello"
    /\ ws_calls[4].args.message = "hello"
    /\ ws_calls[5].value = "reply-1"
    /\ ws_calls[6].op = "receive_json"
    /\ ws_calls[6].data.kind = "object"
    /\ ws_calls[6].data.message = Absent
    /\ ws_calls[7].args.message = ""
    /\ ws_calls[7].args.conversation_id = None
    /\ ws_calls[8].value = "reply-2"

(* C10: a connection that connect registered is deregistered exactly once:  *)
(* however the handler leaves the loop, disconnect is called once, with the *)
(* socket, as the last call; it is not called for a connection that was     *)
(* never registered; and when the client disconnected, close is never       *)
(* called and no exception leaves the handler.                              *)
C10_DeregisteredExactlyOnce ==
    /\ Cardinality(CallsOf("disconnect")) <= 1
    /\ \A i \in CallsOf("disconnect") :
        /\ Registered
        /\ i = Len(ws_calls)
        /\ ws_calls[i].value = WebSocketId
        /\ ws_pc \in {"returned", "raised"}
    /\ (Registered /\ ws_pc \in {"returned", "raised"}) =>
        /\ CallsOf("disconnect") # {}
        /\ active_connections = {}
    /\ (Registered /\ ws_pc \notin {"returned", "raised"}) =>
        /\ CallsOf("disconnect") = {}
        /\ WebSocketId \in active_connections
    /\ \A i \in 1..Len(ws_calls) : ws_calls[i].outcome = Disconnect =>
        /\ ws_calls[i].op \in MessageOps
        /\ CallsOf("close") = {}
        /\ ws_pc \in {"finally", "returned"}
        /\ ws_pending = None

(* close(4000) itself raised after a failed send: still deregistered once. *)
C10_Witness ==
    /\ ws_pc = "raised"
    /\ Registered
    /\ Len(ws_calls) >= 3
    /\ ws_calls[Len(ws_calls) - 2].op = "send_json"
    /\ ws_calls[Len(ws_calls) - 1].op = "close"
    /\ ws_calls[Len(ws_calls) - 1].outcome \in Exceptions
    /\ ws_calls[Len(ws_calls)].op = "disconnect"
    /\ active_connections = {}

-----------------------------------------------------------------------------
(* The request models and the protected HTTP routes                        *)

(* A field of a pydantic model: Field(...) is required, Field(default=..)  *)
(* or a plain default is not.                                              *)
Required(name) == [name |-> name, required |-> TRUE, default |-> None]

Optional(name, default) == [name |-> name, required |-> FALSE, default |-> default]

(* main.py:108-114 with system_prompt: str = Field(None, ...) *)
AgentCreateRequestOptionalPrompt ==
    {Required("name"), Required("description"), Optional("system_prompt", None),
     Optional("model", "gpt-4"), Optional("tools", "[]"), Optional("settings", "{}")}

(* main.py:108-114 *)
AgentCreateRequest ==
    {Required("name"), Required("description"), Required("system_prompt"),
     Optional("model", "gpt-4"), Optional("tools", "[]"), Optional("settings", "{}")}

(* main.py:116-120 *)
ChatMessage ==
    {Required("role"), Required("content"), Optional("timestamp", None),
     Optional("metadata", "{}")}

(* main.py:122-126 *)
ChatRequest ==
    {Required("message"), Required("agent_id"), Optional("conversation_id", None),
     Optional("stream", "False")}

FieldNames(model) == {f.name : f \in model}

(* The value a client gives a field it supplies. *)
ClientValue(name) == <<"client", name>>

(* pydantic validation of a body carrying the fields `given`: an error for *)
(* each required field that is missing; otherwise the model instance, each *)
(* field with the value given or its default.                              *)
Validate(model, given) ==
    LET missing == {f.name : f \in {g \in model : g.required /\ g.name \notin given}}
    IN  [valid |-> missing = {},
         missing |-> missing,
         fields |-> {[name |-> f.name,
                      value |-> IF f.name \in given THEN ClientValue(f.name)
                                ELSE <<"default", f.default>>] : f \in model}]

NotValidated == [valid |-> FALSE, missing |-> {}, fields |-> {}]

Routes == {"create_agent", "list_agents", "chat_with_agent"}

(* The body parameter of a route: list_agents has none. *)
BodyModel(r) ==
    CASE r = "create_agent" -> AgentCreateRequest
      [] r = "chat_with_agent" -> ChatRequest
      [] OTHER -> {}

(* The agent_service operation a route delegates to. *)
ServiceOp(r) ==
    CASE r = "create_agent" -> "create_agent"
      [] r = "list_agents" -> "get_user_agents"
      [] OTHER -> "chat_with_agent"

(* What an agent_service operation returns. *)
ServiceValues == {"result-1", "result-2"}

(* What an agent_service operation raises: a plain exception, or an        *)
(* HTTPException carrying a status of its own.                             *)
ServiceExceptions ==
    {[cls |-> "ValueError", status |-> 0, detail |-> "invalid agent"],
     [cls |-> "HTTPException", status |-> 404, detail |-> "Agent not found"],
     [cls |-> "HTTPException", status |-> 403, detail |-> "Forbidden"]}

(* A text: `text`, or "<prefix>: <text>" when prefix is not 0. *)
Text(prefix, text) == [prefix |-> prefix, text |-> text]

(* str(e): the message of a plain exception; "<status>: <detail>" for an   *)
(* HTTPException.                                                          *)
Str(e) ==
    IF e.cls = "HTTPException"
    THEN Text(e.status, e.detail)
    ELSE Text(0, e.detail)

NoException == [cls |-> None, status |-> 0, detail |-> None]

(* One record of http_calls. *)
HttpCall(op, outcome, user, args, value, exc) ==
    [op |-> op, outcome |-> outcome, user |-> user, args |-> args, value |-> value,
     exc |-> exc]

(* A JSON body: the value itself (wrap "none"), or the value as the member *)
(* `wrap` of an object, beside a "message" member when message is not None. *)
Body(wrap, message, value) == [wrap |-> wrap, message |-> message, value |-> value]

NoBody == Body(None, None, None)

(* A JSON response; HTTPException(status_code, detail) becomes             *)
(* {"detail": detail} with that status.                                    *)
HttpResponse(status, detail, body) == [status |-> status, detail |-> detail, body |-> body]

NoResponse == HttpResponse(0, Text(0, None), NoBody)

notHttp == <<healthVars, wsVars, cfgVars, lifespanVars>>

InitHttp ==
    /\ http_pc = "idle"
    /\ route = None
    /\ supplied = {}
    /\ current_user = None
    /\ request = NotValidated
    /\ http_calls = <<>>
    /\ http_log = <<>>
    /\ http_response = NoResponse
    /\ IdleHealth /\ IdleWs /\ IdleCfg /\ IdleLifespan

(* A request for a protected route arrives, bearing credentials and a JSON *)
(* body with some of the fields of the route's model (main.py:256-261,     *)
(* 279-283, 292-297).                                                      *)
ReceiveRequest ==
    /\ http_pc = "idle"
    /\ \E r \in Routes :
        /\ route' = r
        /\ \E given \in SUBSET FieldNames(BodyModel(r)) : supplied' = given
    /\ http_pc' = "auth"
    /\ UNCHANGED <<current_user, request, http_calls, http_log, http_response, notHttp>>

(* ChatMessage built from a body: the model is declared here and used by   *)
(* no route of main.py; it is validated on its own.                        *)
ParseChatMessage ==
    /\ http_pc = "idle"
    /\ route' = "ChatMessage"
    /\ \E given \in SUBSET FieldNames(ChatMessage) :
        /\ supplied' = given
        /\ request' = Validate(ChatMessage, given)
    /\ http_pc' = "parsed"
    /\ UNCHANGED <<current_user, http_calls, http_log, http_response, notHttp>>

(* get_current_user with `if user_id is None` in place of `if not user_id`: *)
(* an empty "sub" passes.                                                   *)
GetCurrentUserAcceptsEmptySub ==
    /\ http_pc = "auth"
    /\ \E o \in VerifyOutcomes :
        LET sub == DictGet(o.payload, "sub", None)
            failed == o.kind = "raise" \/ sub = None
        IN  /\ http_calls' = Append(http_calls,
                   HttpCall("verify_token", o.kind, None, o.payload, None,
                            [NoException EXCEPT !.cls = o.exc]))
            /\ IF failed
               THEN /\ http_log' = Append(http_log, [msg |-> "Authentication failed"])
                    /\ http_response' = HttpResponse(401, Text(0, "Authentication failed"), NoBody)
                    /\ http_pc' = "done"
                    /\ UNCHANGED current_user
               ELSE /\ current_user' = sub
                    /\ http_pc' = "validate"
                    /\ UNCHANGED <<http_log, http_response>>
    /\ UNCHANGED <<route, supplied, request, notHttp>>

(* main.py:163-173, as the dependency of each protected route (main.py:259, *)
(* 281, 295).  verify_token raising, and the HTTPException(401, "Invalid    *)
(* token") raised inside the try for a missing or empty "sub", both reach   *)
(* the except Exception clause, which logs and raises                       *)
(* HTTPException(401, "Authentication failed"); the handler then never runs. *)
GetCurrentUser ==
    /\ http_pc = "auth"
    /\ \E o \in VerifyOutcomes :
        LET sub == DictGet(o.payload, "sub", None)
            failed == o.kind = "raise" \/ ~Truthy(sub)
        IN  /\ http_calls' = Append(http_calls,
                   HttpCall("verify_token", o.kind, None, o.payload, None,
                            [NoException EXCEPT !.cls = o.exc]))
            /\ IF failed
               THEN /\ http_log' = Append(http_log, [msg |-> "Authentication failed"])
                    /\ http_response' = HttpResponse(401, Text(0, "Authentication failed"), NoBody)
                    /\ http_pc' = "done"
                    /\ UNCHANGED current_user
               ELSE /\ current_user' = sub
                    /\ http_pc' = "validate"
                    /\ UNCHANGED <<http_log, http_response>>
    /\ UNCHANGED <<route, supplied, request, notHttp>>

(* The body parameter (request: AgentCreateRequest, request: ChatRequest;   *)
(* main.py:258, 294) is validated before the handler is called: an invalid  *)
(* body is answered 422 and the handler never runs.  list_agents has no     *)
(* body.                                                                    *)
ValidateBody ==
    /\ http_pc = "validate"
    /\ LET v == Validate(BodyModel(route), supplied)
       IN  /\ request' = v
           /\ IF v.valid
              THEN /\ http_pc' = "handler"
                   /\ UNCHANGED http_response
              ELSE /\ http_pc' = "done"
                   /\ http_response' = HttpResponse(422, Text(0, "field required"), NoBody)
    /\ UNCHANGED <<route, supplied, current_user, http_calls, http_log, notHttp>>

(* try: x = await agent_service.op(...); return wrapped x                   *)
(* except Exception as e: logger.error(..); raise HTTPException(500, str(e)) *)
Delegate(wrap, message, what) ==
    \/ \E v \in ServiceValues :
        /\ http_calls' = Append(http_calls,
               HttpCall(ServiceOp(route), "return", current_user, request.fields, v,
                        NoException))
        /\ http_response' = HttpResponse(200, Text(0, None), Body(wrap, message, v))
        /\ UNCHANGED http_log
    \/ \E e \in ServiceExceptions :
        /\ http_calls' = Append(http_calls,
               HttpCall(ServiceOp(route), "raise", current_user, request.fields, None, e))
        /\ http_log' = Append(http_log, [msg |-> what])
        /\ http_response' = HttpResponse(500, Str(e), NoBody)

(* The same with `except HTTPException: raise` before except Exception. *)
DelegateReraisesHttp(wrap, message, what) ==
    \/ \E v \in ServiceValues :
        /\ http_calls' = Append(http_calls,
               HttpCall(ServiceOp(route), "return", current_user, request.fields, v,
                        NoException))
        /\ http_response' = HttpResponse(200, Text(0, None), Body(wrap, message, v))
        /\ UNCHANGED http_log
    \/ \E e \in ServiceExceptions :
        /\ http_calls' = Append(http_calls,
               HttpCall(ServiceOp(route), "raise", current_user, request.fields, None, e))
        /\ IF e.cls = "HTTPException"
           THEN /\ http_response' = HttpResponse(e.status, Text(0, e.detail), NoBody)
                /\ UNCHANGED http_log
           ELSE /\ http_log' = Append(http_log, [msg |-> what])
                /\ http_response' = HttpResponse(500, Str(e), NoBody)

(* main.py:256-277 *)
CreateAgent ==
    /\ http_pc = "handler"
    /\ route = "create_agent"
    /\ Delegate("agent", "Agent created successfully", "Error creating agent")
    /\ http_pc' = "done"
    /\ UNCHANGED <<route, supplied, current_user, request, notHttp>>

(* main.py:279-290 *)
ListAgents ==
    /\ http_pc = "handler"
    /\ route = "list_agents"
    /\ Delegate("agents", None, "Error listing agents")
    /\ http_pc' = "done"
    /\ UNCHANGED <<route, supplied, current_user, request, notHttp>>

ChatWithAgentReraisesHttp ==
    /\ http_pc = "handler"
    /\ route = "chat_with_agent"
    /\ DelegateReraisesHttp("none", None, "Error in chat")
    /\ http_pc' = "done"
    /\ UNCHANGED <<route, supplied, current_user, request, notHttp>>

(* main.py:292-311 *)
ChatWithAgent ==
    /\ http_pc = "handler"
    /\ route = "chat_with_agent"
    /\ Delegate("none", None, "Error in chat")
    /\ http_pc' = "done"
    /\ UNCHANGED <<route, supplied, current_user, request, notHttp>>

NextHttp ==
    \/ ReceiveRequest
    \/ ParseChatMessage
    \/ GetCurrentUser
    \/ ValidateBody
    \/ CreateAgent
    \/ ListAgents
    \/ ChatWithAgent

SpecHttp == InitHttp /\ [][NextHttp]_vars

(* The agent_service operations invoked for the request. *)
ServiceCalls == {i \in 1..Len(http_calls) : http_calls[i].op # "verify_token"}

(* C4: on each protected route get_current_user either returns the          *)
(* non-empty "sub" of the payload verify_token returned, or the request is  *)
(* answered 401 - when verify_token raises and when the payload has no or   *)
(* an empty "sub" - and never any other status; when it is answered 401 no  *)
(* agent_service operation is invoked for the request.                      *)
C4_AuthFailureIs401 ==
    route \in Routes =>
        /\ http_pc = "auth" <=> http_calls = <<>>
        /\ http_calls # <<>> =>
            LET v == http_calls[1]
            IN  /\ v.op = "verify_token"
                /\ IF v.outcome = "raise" \/ v.args.sub \in {Absent, ""}
                   THEN /\ http_pc = "done"
                        /\ http_response.status = 401
                        /\ current_user = None
                        /\ ServiceCalls = {}
                   ELSE /\ current_user = v.args.sub
                        /\ current_user \notin {None, ""}
                        /\ http_response.status # 401
                        /\ \A i \in ServiceCalls : http_calls[i].user = v.args.sub

(* A chat request whose token verifies to a payload with an empty "sub". *)
C4_Witness ==
    /\ route = "chat_with_agent"
    /\ http_pc = "done"
    /\ Len(http_calls) = 1
    /\ http_calls[1].outcome = "return"
    /\ http_calls[1].args.sub = ""
    /\ http_response.status = 401

(* The success body of a route, as C5 states it. *)
ExpectedBody(r, v) ==
    CASE r = "create_agent" -> Body("agent", "Agent created successfully", v)
      [] r = "list_agents" -> Body("agents", None, v)
      [] OTHER -> Body("none", None, v)

(* C5: in create_agent, list_agents and chat_with_agent, when the delegated *)
(* agent_service call returns a value the response is that value (wrapped   *)
(* as {message, agent}, {agents}, or as it is) with status 200; when it     *)
(* raises any exception, an HTTPException of another status included, the   *)
(* response is 500 with str(exception) as its detail.                       *)
C5_ServiceErrorsAre500 ==
    /\ Cardinality(ServiceCalls) <= 1
    /\ http_pc = "handler" => ServiceCalls = {}
    /\ \A i \in ServiceCalls :
        LET c == http_calls[i]
        IN  /\ http_pc = "done"
            /\ c.op = ServiceOp(route)
            /\ IF c.outcome = "return"
               THEN http_response = HttpResponse(200, Text(0, None), ExpectedBody(route, c.value))
               ELSE /\ http_response.status = 500
                    /\ http_response.detail = Str(c.exc)

(* chat_with_agent whose service call raised HTTPException(404). *)
C5_Witness ==
    /\ route = "chat_with_agent"
    /\ http_pc = "done"
    /\ Len(http_calls) = 2
    /\ http_calls[2].op = "chat_with_agent"
    /\ http_calls[2].exc.cls = "HTTPException"
    /\ http_calls[2].exc.status = 404
    /\ http_response.status = 500
    /\ http_response.detail = Text(404, "Agent not found")

(* The required fields of each model, as C7 states them. *)
ClaimedRequired(r) ==
    CASE r = "create_agent" -> {"name", "description", "system_prompt"}
      [] r = "chat_with_agent" -> {"message", "agent_id"}
      [] r = "ChatMessage" -> {"role", "content"}
      [] OTHER -> {}

(* The defaults of each model, as C7 states them. *)
ClaimedDefaults(r) ==
    CASE r = "create_agent" -> {[name |-> "model", value |-> <<"default", "gpt-4">>],
                                [name |-> "tools", value |-> <<"default", "[]">>],
                                [name |-> "settings", value |-> <<"default", "{}">>]}
      [] r = "chat_with_agent" -> {[name |-> "conversation_id", value |-> <<"default", None>>],
                                   [name |-> "stream", value |-> <<"default", "False">>]}
      [] OTHER -> {}

(* The body of the request has been validated. *)
Validated ==
    \/ http_pc \in {"parsed", "handler"}
    \/ http_pc = "done" /\ http_response.status # 401

(* C7: a body is valid exactly when it carries the required fields of its   *)
(* model - name, description, system_prompt for AgentCreateRequest;        *)
(* message, agent_id for ChatRequest; role, content for ChatMessage - the   *)
(* optional fields it omits get their defaults, an invalid body is          *)
(* rejected, and the route's agent_service operation is invoked only if    *)
(* the body is valid.                                                       *)
C7_RequiredFieldsDecideValidity ==
    /\ Validated =>
        /\ request.valid <=> ClaimedRequired(route) \subseteq supplied
        /\ request.valid =>
            \A d \in ClaimedDefaults(route) : d.name \notin supplied => d \in request.fields
        /\ (route \in Routes /\ ~request.valid) =>
            /\ http_pc = "done"
            /\ http_response.status = 422
    /\ ServiceCalls # {} => ClaimedRequired(route) \subseteq supplied

(* create_agent served for a body with exactly the three required fields,  *)
(* the model defaulted to gpt-4.                                           *)
C7_Witness ==
    /\ route = "create_agent"
    /\ http_pc = "done"
    /\ supplied = {"name", "description", "system_prompt"}
    /\ http_response.status = 200
    /\ Len(http_calls) = 2
    /\ [name |-> "model", value |-> <<"default", "gpt-4">>] \in http_calls[2].args
    /\ [name |-> "name", value |-> ClientValue("name")] \in http_calls[2].args

-----------------------------------------------------------------------------
(* core/config.py: Settings, get_settings and the module globals           *)

(* The most calls of get_settings in one process, the import's included. *)
MaxCalls == 3

(* A variable the environment does not set. *)
Unset == "<unset>"

(* The environments of the process, restricted to the variables behind the *)
(* five exported settings (config.py:17, 28, 32, 35, 40).                   *)
Environments ==
    [DATABASE_URL : {Unset, "postgres://db-1", "postgres://db-2"},
     REDIS_URL : {Unset, "redis://cache:6379"},
     SECRET_KEY : {Unset, "secret-1"},
     OPENAI_API_KEY : {Unset, "sk-1"},
     DEBUG : {Unset, "true"}]

(* pydantic's parsing of a bool field from its environment string. *)
ParseBool(v) == IF v \in {"true", "1", "yes", "on"} THEN "True" ELSE "False"

(* Field(..., env=X): required; Field(default=d, env=X): d when X is unset. *)
FromEnv(env, name, default) == IF env[name] = Unset THEN default ELSE env[name]

NoFields ==
    [DATABASE_URL |-> None, REDIS_URL |-> None, SECRET_KEY |-> None,
     OPENAI_API_KEY |-> None, DEBUG |-> None]

NoInstance == [id |-> 0, fields |-> NoFields]

(* Settings(): a ValidationError when a required variable is unset,         *)
(* otherwise a new instance (id is its identity) with its fields read from  *)
(* the environment of that moment.                                          *)
NewSettings(env, id) ==
    IF \E name \in {"DATABASE_URL", "SECRET_KEY", "OPENAI_API_KEY"} : env[name] = Unset
    THEN [kind |-> "raise", instance |-> NoInstance]
    ELSE [kind |-> "return",
          instance |-> [id |-> id,
                        fields |-> [DATABASE_URL |-> env.DATABASE_URL,
                                    REDIS_URL |-> FromEnv(env, "REDIS_URL", "redis://localhost:6379"),
                                    SECRET_KEY |-> env.SECRET_KEY,
                                    OPENAI_API_KEY |-> env.OPENAI_API_KEY,
                                    DEBUG |-> IF env.DEBUG = Unset THEN "False"
                                              ELSE ParseBool(env.DEBUG)]]]

(* get_settings without @lru_cache: no call finds a cached result. *)
CachedNever(c, args) == {}

(* functools.lru_cache: the results cached for an argument tuple. *)
Cached(c, args) == {e \in c : e.args = args}

(* get_settings(): the cached result when there is one; otherwise           *)
(* Settings() is constructed, and cached when it did not raise.             *)
(* The result, the cache and the constructions after the call.              *)
CallGetSettings ==
    LET hit == Cached(cache, <<>>)
        made == NewSettings(environ, Len(constructed) + 1)
    IN  IF hit # {}
        THEN [result |-> [kind |-> "return", instance |-> (CHOOSE e \in hit : TRUE).result],
              cache |-> cache,
              constructed |-> constructed]
        ELSE [result |-> made,
              cache |-> IF made.kind = "return"
                        THEN cache \cup {[args |-> <<>>, result |-> made.instance]}
                        ELSE cache,
              constructed |-> Append(constructed, made)]

(* One record of returned: the result of the call, and whether Settings()  *)
(* built from the environment of the call would have differed from it.     *)
Returned(result) ==
    [result |-> result,
     stale |-> result.kind = "return"
               /\ NewSettings(environ, result.instance.id) # result]

notCfg == <<healthVars, wsVars, httpVars, lifespanVars>>

InitCfg ==
    /\ environ \in Environments
    /\ cfg_pc = "unimported"
    /\ cache = {}
    /\ constructed = <<>>
    /\ returned = <<>>
    /\ settings = NoInstance
    /\ exports = NoFields
    /\ IdleHealth /\ IdleWs /\ IdleHttp /\ IdleLifespan

(* The environment changes (os.environ, the .env file). *)
ChangeEnvironment ==
    /\ \E env \in Environments :
        /\ env # environ
        /\ environ' = env
    /\ UNCHANGED <<cfg_pc, cache, constructed, returned, settings, exports, notCfg>>

(* config.py:214-228, the module body: settings = get_settings(), then the  *)
(* exports.  When Settings() raises the import fails: nothing is cached and *)
(* nothing is bound, and a later import runs the body again.                *)
ImportConfig ==
    /\ cfg_pc \in {"unimported", "import_failed"}
    /\ Len(returned) < MaxCalls
    /\ LET call == CallGetSettings
       IN  /\ cache' = call.cache
           /\ constructed' = call.constructed
           /\ returned' = Append(returned, Returned(call.result))
           /\ IF call.result.kind = "return"
              THEN /\ settings' = call.result.instance
                   /\ exports' = [DATABASE_URL |-> call.result.instance.fields.DATABASE_URL,
                                  REDIS_URL |-> call.result.instance.fields.REDIS_URL,
                                  SECRET_KEY |-> call.result.instance.fields.SECRET_KEY,
                                  OPENAI_API_KEY |-> call.result.instance.fields.OPENAI_API_KEY,
                                  DEBUG |-> call.result.instance.fields.DEBUG]
                   /\ cfg_pc' = "imported"
              ELSE /\ cfg_pc' = "import_failed"
                   /\ UNCHANGED <<settings, exports>>
    /\ UNCHANGED <<environ, notCfg>>

(* config.py:214-217: a component calls get_settings(). *)
GetSettings ==
    /\ cfg_pc = "imported"
    /\ Len(returned) < MaxCalls
    /\ LET call == CallGetSettings
       IN  /\ cache' = call.cache
           /\ constructed' = call.constructed
           /\ returned' = Append(returned, Returned(call.result))
    /\ UNCHANGED <<environ, cfg_pc, settings, exports, notCfg>>

NextCfg == ChangeEnvironment \/ ImportConfig \/ GetSettings

SpecSettings == InitCfg /\ [][NextCfg]_vars

(* The constructions of Settings() that succeeded. *)
Constructions == {i \in 1..Len(constructed) : constructed[i].kind = "return"}

(* The get_settings calls that returned. *)
Returns == {i \in 1..Len(returned) : returned[i].result.kind = "return"}

(* C8: over any sequence of get_settings calls in one process Settings() is *)
(* constructed successfully at most once - nothing is constructed after a   *)
(* construction that succeeded, so exactly once when the first succeeds -;  *)
(* every call that returns returns that one instance, whatever the          *)
(* environment is when it is called; and the module's settings and its      *)
(* exports DATABASE_URL, REDIS_URL, SECRET_KEY, OPENAI_API_KEY and DEBUG    *)
(* are that instance and its fields.                                        *)
C8_SettingsConstructedOnce ==
    /\ Cardinality(Constructions) <= 1
    /\ \A i \in Constructions : i = Len(constructed)
    /\ (constructed # <<>> /\ constructed[1].kind = "return") => Len(constructed) = 1
    /\ \A i \in Returns :
        /\ Constructions # {}
        /\ \A c \in Constructions : returned[i].result.instance = constructed[c].instance
    /\ cfg_pc = "imported" <=> Returns # {}
    /\ cfg_pc = "imported" =>
        /\ \A c \in Constructions : settings = constructed[c].instance
        /\ exports.DATABASE_URL = settings.fields.DATABASE_URL
        /\ exports.REDIS_URL = settings.fields.REDIS_URL
        /\ exports.SECRET_KEY = settings.fields.SECRET_KEY
        /\ exports.OPENAI_API_KEY = settings.fields.OPENAI_API_KEY
        /\ exports.DEBUG = settings.fields.DEBUG

(* A second call made after the environment changed - Settings() would    *)
(* now give other values - returns the instance of the first, unchanged.   *)
C8_Witness ==
    /\ Len(returned) >= 2
    /\ Len(constructed) = 1
    /\ ~returned[1].stale
    /\ returned[2].stale
    /\ returned[2].result.kind = "return"
    /\ returned[2].result.instance = returned[1].result.instance
    /\ returned[2].result.instance.fields.DATABASE_URL = "postgres://db-1"
    /\ environ.DATABASE_URL = "postgres://db-2"
    /\ exports.DATABASE_URL = "postgres://db-1"
    /\ exports.DEBUG = "True"

-----------------------------------------------------------------------------
(* The application lifespan (main.py:56-76), with GET /health as the        *)
(* request served between startup and shutdown                              *)

(* How an awaited startup or shutdown step ends. *)
StepOutcomes == {"ok"} \cup Exceptions

(* One record of l_calls. *)
Step(op, outcome) == [op |-> op, outcome |-> outcome]

(* lifespan has no try statement: a step that raises ends it there, with    *)
(* none of the statements after it run.                                     *)
AfterStep(outcome, next) == IF outcome = "ok" THEN next ELSE "failed"

notLifespan == <<wsVars, httpVars, cfgVars>>

InitLifespan ==
    /\ l_pc = "init_db"
    /\ l_calls = <<>>
    /\ l_log = <<"Starting AI Agent Platform...">>
    /\ IdleHealth /\ IdleWs /\ IdleHttp /\ IdleCfg

(* main.py:61-62: await init_db() *)
InitDb ==
    /\ l_pc = "init_db"
    /\ \E o \in StepOutcomes :
        /\ l_calls' = Append(l_calls, Step("init_db", o))
        /\ l_pc' = AfterStep(o, "init_vector")
    /\ UNCHANGED <<l_log, healthVars, notLifespan>>

(* main.py:64-65: await vector_service.initialize() *)
InitializeVector ==
    /\ l_pc = "init_vector"
    /\ \E o \in StepOutcomes :
        /\ l_calls' = Append(l_calls, Step("vector_service.initialize", o))
        /\ l_pc' = AfterStep(o, "init_llm")
    /\ UNCHANGED <<l_log, healthVars, notLifespan>>

(* main.py:67-71: await llm_service.initialize(); logger.info; yield *)
InitializeLLM ==
    /\ l_pc = "init_llm"
    /\ \E o \in StepOutcomes :
        /\ l_calls' = Append(l_calls, Step("llm_service.initialize", o))
        /\ l_pc' = AfterStep(o, "serving")
        /\ l_log' = IF o = "ok"
                    THEN Append(l_log, "AI Agent Platform started successfully!")
                    ELSE l_log
    /\ UNCHANGED <<healthVars, notLifespan>>

(* After the yield the application serves: a GET /health request enters    *)
(* health_check (main.py:129-133).                                          *)
ServeHealthRequest ==
    /\ l_pc = "serving"
    /\ h_pc = "idle"
    /\ h_pc' = "db"
    /\ UNCHANGED <<db_healthy, vector_healthy, llm_healthy, h_probes, h_log, h_response,
                   lifespanVars, notLifespan>>

(* main.py:73-74: at shutdown, once no request is in flight, the generator  *)
(* resumes: logger.info; await vector_service.close()                       *)
CloseVector ==
    /\ l_pc = "serving"
    /\ h_pc \in {"idle", "done"}
    /\ l_log' = Append(l_log, "Shutting down AI Agent Platform...")
    /\ \E o \in StepOutcomes :
        /\ l_calls' = Append(l_calls, Step("vector_service.close", o))
        /\ l_pc' = AfterStep(o, "close_llm")
    /\ UNCHANGED <<healthVars, notLifespan>>

(* main.py:75-76: await llm_service.close(); logger.info *)
CloseLLM ==
    /\ l_pc = "close_llm"
    /\ \E o \in StepOutcomes :
        /\ l_calls' = Append(l_calls, Step("llm_service.close", o))
        /\ l_pc' = AfterStep(o, "stopped")
        /\ l_log' = IF o = "ok"
                    THEN Append(l_log, "AI Agent Platform shut down successfully!")
                    ELSE l_log
    /\ UNCHANGED <<healthVars, notLifespan>>

NextLifespan ==
    \/ InitDb
    \/ InitializeVector
    \/ InitializeLLM
    \/ ServeHealthRequest
    \/ CheckDatabase
    \/ CheckVector
    \/ CheckLLM
    \/ HealthRespond
    \/ CloseVector
    \/ CloseLLM

SpecLifespan == InitLifespan /\ [][NextLifespan]_vars

(* The steps of lifespan in the order of the code. *)
LifespanOrder ==
    <<"init_db", "vector_service.initialize", "llm_service.initialize",
      "vector_service.close", "llm_service.close">>

(* A step has been awaited and returned. *)
Completed(op) == \E i \in 1..Len(l_calls) : l_calls[i].op = op /\ l_calls[i].outcome = "ok"

(* A step has been awaited, whatever it did. *)
Awaited(op) == \E i \in 1..Len(l_calls) : l_calls[i].op = op

(* C11: lifespan runs init_db, vector_service.initialize,                   *)
(* llm_service.initialize in that order, all completed before a request is  *)
(* served, and at shutdown vector_service.close then llm_service.close;     *)
(* and when lifespan is over - stopped, or ended by a step that raised -    *)
(* every service whose initialize completed has had its close awaited.      *)
C11_InitializedServicesAreClosed ==
    /\ Len(l_calls) <= Len(LifespanOrder)
    /\ \A i \in 1..Len(l_calls) : l_calls[i].op = LifespanOrder[i]
    /\ (l_pc = "serving" \/ h_pc # "idle") =>
        /\ Completed("init_db")
        /\ Completed("vector_service.initialize")
        /\ Completed("llm_service.initialize")
    /\ l_pc \in {"stopped", "failed"} =>
        /\ Completed("vector_service.initialize") => Awaited("vector_service.close")
        /\ Completed("llm_service.initialize") => Awaited("llm_service.close")

====
